---- MODULE Spec2Model ----
(***************************************************************************)
(* A model of the IMAGINE likelihood-evaluation pipeline                   *)
(* (src/imagine/pipelines/pipeline.py): the parameter registry built by    *)
(* the factory_list setter, the prior operations, the randomness           *)
(* controller, the core likelihood, the two MPI protocols of               *)
(* _mpi_likelihood, the accessors of a run's results and the sampler's     *)
(* options; with it the GeneralField objects of src/imagine/fields/field.py *)
(* and the observable dictionaries and masks of                            *)
(* src/imagine/observables/observable_dict.py.                             *)
(*                                                                         *)
(* Floats are integers in units of 1/Unit: a cube coordinate v stands for  *)
(* v/Unit, so the unit interval is 0..Unit.  Python's None is the string   *)
(* "None", or the empty sequence where the attribute otherwise holds a     *)
(* sequence; a dict is the sequence of its <<key, value>> pairs in         *)
(* insertion order.                                                        *)
(***************************************************************************)
EXTENDS Integers, Sequences, FiniteSets, TLC

VARIABLES
    factories,            \* the caller's field factory objects, by identity
    _factory_list,        \* Pipeline._factory_list
    _active_parameters,   \* Pipeline._active_parameters (a tuple of names)
    _active_ranges,       \* Pipeline._active_ranges (a dict)
    _priors,              \* Pipeline._priors (a dict)
    _ensemble_size,       \* Pipeline._ensemble_size
    likelihood_rescaler,  \* Pipeline.likelihood_rescaler
    random_type,          \* Pipeline.random_type
    check_threshold,      \* Pipeline.check_threshold
    likelihood_threshold, \* Pipeline.likelihood_threshold
    rnd,                  \* _seed_tracer, _ensemble_seeds, the stray attribute
                          \* ensemble_seeds and numpy's global generator
    last,                 \* what the last operation on the pipeline did
    sampler_supports_mpi, \* the sub-class's protocol switch
    procs,                \* the MPI group: each process inside _mpi_likelihood
    scattered,            \* the root's buffer handed to comm.Scatter
    _evidence,            \* Pipeline._evidence
    _evidence_err,        \* Pipeline._evidence_err
    _samples_array,       \* Pipeline._samples_array
    _likelihood,          \* Pipeline._likelihood: which likelihood object
    _sampling_controllers, \* Pipeline._sampling_controllers (a dict)
    dicts,                \* the dict objects fields hold or were given, by identity
    field_objs,           \* the GeneralField objects constructed so far
    obs_type,             \* the class of the caller's observables dictionary
    obs_archive,          \* its _archive
    mask_archive          \* the _archive of the caller's Masks dictionary

vars == <<factories, _factory_list, _active_parameters, _active_ranges, _priors,
          _ensemble_size, likelihood_rescaler, random_type, check_threshold,
          likelihood_threshold, rnd, last, sampler_supports_mpi, procs,
          scattered, _evidence, _evidence_err, _samples_array, _likelihood,
          _sampling_controllers, dicts, field_objs, obs_type, obs_archive,
          mask_archive>>

registryVars == <<_factory_list, _active_parameters, _active_ranges, _priors>>
configVars == <<_ensemble_size, likelihood_rescaler, random_type,
                check_threshold, likelihood_threshold, _likelihood>>
mpiVars == <<sampler_supports_mpi, procs, scattered>>
resultVars == <<_evidence, _evidence_err, _samples_array>>
fieldVars == <<dicts, field_objs>>
observableVars == <<obs_type, obs_archive, mask_archive>>
\* What the likelihood path does not touch.
otherVars == <<_sampling_controllers, fieldVars, observableVars>>

(***************************************************************************)
(* Bounds of the model.                                                    *)
(***************************************************************************)
MaxFactories == 2      \* longest factory list assigned
MaxCubeLen == 3        \* longest cube handed to a direct core evaluation
MaxDraws == 2          \* numbers drawn from numpy's generator since its seeding
MaxEnsemble == 2       \* largest ensemble size the caller sets
MaxSamples == 2        \* rows of the sample array a run stores
MpiSize == 2           \* processes of the MPI group (mpisize)
MaxRows == 2           \* most rows an Observable of the caller holds

(***************************************************************************)
(* Numbers.                                                                *)
(***************************************************************************)
Unit == 2
None == "None"

\* np.nan_to_num(-np.inf): the most negative double, below every score.
Sentinel == -1000

RECURSIVE SumSeq(_)
SumSeq(s) == IF s = <<>> THEN 0 ELSE Head(s) + SumSeq(Tail(s))

RECURSIVE Flatten(_)
Flatten(ss) == IF ss = <<>> THEN <<>> ELSE Head(ss) \o Flatten(Tail(ss))

Range(s) == {s[i] : i \in DOMAIN s}

(***************************************************************************)
(* Python dicts, in insertion order.                                       *)
(***************************************************************************)
DictKeys(d) == [i \in DOMAIN d |-> d[i][1]]

DictHas(d, k) == \E i \in DOMAIN d : d[i][1] = k

DictGet(d, k) == d[CHOOSE i \in DOMAIN d : d[i][1] = k][2]

\* d[k] = v: an existing key keeps its position, a new key goes last.
DictSet(d, k, v) ==
    IF DictHas(d, k)
    THEN [i \in DOMAIN d |-> IF d[i][1] = k THEN <<k, v>> ELSE d[i]]
    ELSE Append(d, <<k, v>>)

(***************************************************************************)
(* The caller's field factories.  The pipeline reads name,                 *)
(* active_parameters, parameter_ranges and priors of each (and calls       *)
(* generate); the caller owns the objects and may change them.             *)
(***************************************************************************)
FactoryIds == {"fa", "fab", "fnr", "fnp"}

\* Objects that are instances of GeneralFieldFactory / GeneralPrior.
IsFieldFactory(e) == e \in FactoryIds

IsGeneralPrior(p) == p \in {"FlatPrior", "GaussianPrior"}

InitialFactories ==
    [f \in FactoryIds |->
        CASE f = "fa"  -> [name |-> "a",
                           active_parameters |-> <<"x", "b_c">>,
                           parameter_ranges |-> << <<"x", <<0, 10>> >>,
                                                   <<"b_c", <<-5, 5>> >> >>,
                           priors |-> << <<"x", "FlatPrior">>,
                                         <<"b_c", "GaussianPrior">> >>]
          [] f = "fab" -> [name |-> "a_b",
                           active_parameters |-> <<"c">>,
                           parameter_ranges |-> << <<"c", <<2, 8>> >> >>,
                           priors |-> << <<"c", "FlatPrior">> >>]
          [] f = "fnr" -> [name |-> "r",
                           active_parameters |-> <<"x">>,
                           parameter_ranges |-> << >>,
                           priors |-> << <<"x", "FlatPrior">> >>]
          [] f = "fnp" -> [name |-> "p",
                           active_parameters |-> <<"x">>,
                           parameter_ranges |-> << <<"x", <<0, 10>> >> >>,
                           priors |-> << >>]]

\* The values the caller gives factory.active_parameters after construction.
ActiveChoices(f) ==
    CASE f = "fa"  -> {<<"x", "b_c">>, <<"x">>}
      [] f = "fab" -> {<<"c">>, << >>}
      [] OTHER     -> {InitialFactories[f].active_parameters}

\* All sequences over S of length at most n.
SeqsUpTo(S, n) == UNION {[1..k -> S] : k \in 0..n}

FactoryLists == SeqsUpTo(FactoryIds, MaxFactories)

(***************************************************************************)
(* Pipeline.factory_list (setter): the registry is rebuilt from empty, one *)
(* active parameter at a time; the first failing statement raises and      *)
(* leaves what was built so far.                                           *)
(***************************************************************************)
\* A qualified name with its two parts the wrong way round.
QualifiedName_Swapped(fac, ap_name) == ap_name \o "_" \o fac.name

\* str(factory.name+'_'+ap_name), lines 194-199.
QualifiedName(fac, ap_name) == fac.name \o "_" \o ap_name

EmptyRegistry ==
    [active_parameters |-> << >>, active_ranges |-> << >>, priors |-> << >>,
     error |-> None]

\* A loop body that looks ranges and priors up with dict.get and skips a
\* missing one.
RegisterParameter_Lenient(reg, fac, ap_name) ==
    LET q == fac.name \o "_" \o ap_name
        r1 == [reg EXCEPT !.active_parameters = Append(@, q)]
        r2 == IF DictHas(fac.parameter_ranges, ap_name)
              THEN [r1 EXCEPT !.active_ranges =
                       DictSet(@, q, DictGet(fac.parameter_ranges, ap_name))]
              ELSE r1
    IN  IF DictHas(fac.priors, ap_name)
        THEN [r2 EXCEPT !.priors = DictSet(@, q, DictGet(fac.priors, ap_name))]
        ELSE r2

\* One pass of the inner loop body, lines 192-199.
RegisterParameter(reg, fac, ap_name) ==
    LET q == QualifiedName(fac, ap_name)
        r1 == [reg EXCEPT !.active_parameters = Append(@, q)]
    IN  IF ~DictHas(fac.parameter_ranges, ap_name)
        THEN [r1 EXCEPT !.error = "KeyError"]
        ELSE LET r2 == [r1 EXCEPT !.active_ranges =
                           DictSet(@, q, DictGet(fac.parameter_ranges, ap_name))]
             IN  IF ~DictHas(fac.priors, ap_name)
                 THEN [r2 EXCEPT !.error = "KeyError"]
                 ELSE IF ~IsGeneralPrior(DictGet(fac.priors, ap_name))
                 THEN [r2 EXCEPT !.error = "AssertionError"]
                 ELSE [r2 EXCEPT !.priors =
                          DictSet(@, q, DictGet(fac.priors, ap_name))]

RECURSIVE RegisterParameters(_, _, _)
RegisterParameters(reg, fac, k) ==
    IF reg.error # None \/ k > Len(fac.active_parameters)
    THEN reg
    ELSE RegisterParameters(
             RegisterParameter(reg, fac, fac.active_parameters[k]), fac, k + 1)

\* The outer loop, lines 189-199, over the assigned list from position j.
RECURSIVE RegisterFactories(_, _, _, _)
RegisterFactories(reg, facs, factory_list, j) ==
    IF reg.error # None \/ j > Len(factory_list)
    THEN reg
    ELSE IF ~IsFieldFactory(factory_list[j])
    THEN [reg EXCEPT !.error = "AssertionError"]
    ELSE RegisterFactories(
             RegisterParameters(reg, facs[factory_list[j]], 1),
             facs, factory_list, j + 1)

BuildRegistry(facs, factory_list) ==
    RegisterFactories(EmptyRegistry, facs, factory_list, 1)

(***************************************************************************)
(* The randomness controller.                                              *)
(***************************************************************************)
\* The tracers and seeds the model draws from.
Tracers == {0, 1}

\* A seed set that is None: a derived seed set has ensemble_size > 0 entries.
NoSeeds == << >>

Entropy == {0, 1}

\* The n-th number numpy's global generator yields after np.random.seed(seed).
RandInt(seed, n) == (((seed + 1) * 7 + n * 3) % 11) + 1

\* imagine.tools.random_seed.ensemble_seed_generator(size): size numbers from
\* the global generator, which moves on by size.
ensemble_seed_generator(size, r) ==
    [seeds |-> [k \in 1..size |-> RandInt(r.np_seed, r.np_pos + k)],
     rnd |-> [r EXCEPT !.np_pos = @ + size]]

\* seed_tracer (setter), lines 298-302.
SeedTracerSet(r, seed_tracer) ==
    [r EXCEPT !._seed_tracer = seed_tracer, !.np_seed = seed_tracer, !.np_pos = 0]

\* The state __init__ leaves, lines 66-68.
InitialRnd ==
    SeedTracerSet([_seed_tracer |-> 0, _ensemble_seeds |-> NoSeeds,
                   ensemble_seeds |-> NoSeeds, np_seed |-> 0, np_pos |-> 0], 0)

\* A controller that treats an unknown random_type as free.
Randomness_Lenient(r) ==
    CASE random_type = "controllable" ->
           LET g == ensemble_seed_generator(_ensemble_size, r)
           IN  [rnd |-> [g.rnd EXCEPT !.ensemble_seeds = g.seeds], error |-> None]
      [] random_type = "fixed" ->
           LET g == ensemble_seed_generator(
                        _ensemble_size,
                        [r EXCEPT !.np_seed = r._seed_tracer, !.np_pos = 0])
           IN  [rnd |-> [g.rnd EXCEPT !.ensemble_seeds = g.seeds], error |-> None]
      [] OTHER ->
           [rnd |-> r,
            error |-> IF r._ensemble_seeds = NoSeeds THEN None
                      ELSE "AssertionError"]

\* Pipeline._randomness, lines 304-321.  The seeds are assigned to the
\* attribute ensemble_seeds, not to _ensemble_seeds.
Randomness(r) ==
    CASE random_type = "free" ->
           [rnd |-> r,
            error |-> IF r._ensemble_seeds = NoSeeds THEN None
                      ELSE "AssertionError"]
      [] random_type = "controllable" ->
           LET g == ensemble_seed_generator(_ensemble_size, r)
           IN  [rnd |-> [g.rnd EXCEPT !.ensemble_seeds = g.seeds], error |-> None]
      [] random_type = "fixed" ->
           LET g == ensemble_seed_generator(
                        _ensemble_size,
                        [r EXCEPT !.np_seed = r._seed_tracer, !.np_pos = 0])
           IN  [rnd |-> [g.rnd EXCEPT !.ensemble_seeds = g.seeds], error |-> None]
      [] OTHER -> [rnd |-> r, error |-> "ValueError"]

(***************************************************************************)
(* The collaborators the core likelihood calls: factory.generate, the      *)
(* simulator and the likelihood.  A field generated without seeds is       *)
(* realised from the process's time-dependent seed (entropy); a field      *)
(* generated with seeds is a function of its arguments.                    *)
(***************************************************************************)
RECURSIVE SumOver(_, _)
SumOver(f, S) ==
    IF S = {} THEN 0
    ELSE LET x == CHOOSE y \in S : TRUE IN f[x] + SumOver(f, S \ {x})

Generate(fid, variables, factory_cube, ensemble_size, ensemble_seeds, entropy) ==
    [factory |-> fid,
     variables |-> variables,
     factory_cube |-> factory_cube,
     ensemble_size |-> ensemble_size,
     ensemble_seeds |-> ensemble_seeds,
     realisation |-> IF ensemble_seeds = NoSeeds THEN entropy
                     ELSE SumSeq(ensemble_seeds) % 2]

\* A likelihood that scores the realisations of the ensemble.
RECURSIVE EnsembleScore(_)
EnsembleScore(field_list) ==
    IF field_list = << >> THEN 1
    ELSE LET fld == Head(field_list)
         IN  fld.realisation - SumOver(fld.variables, DOMAIN fld.variables)
             + EnsembleScore(Tail(field_list))

\* A stub likelihood -((x-5)^2) of the value x handed to the first field's
\* generation, over a simulator returning a fixed observable; in units of
\* 1/Unit^2.
QuadraticScore(field_list) ==
    IF field_list = << >> \/ "x" \notin DOMAIN field_list[1].variables THEN 0
    ELSE 0 - (field_list[1].variables["x"] - 5 * Unit)
               * (field_list[1].variables["x"] - 5 * Unit)

\* simulator, apply_mask and likelihood, lines 364-368: one scalar.
LikelihoodScore(field_list) ==
    IF _likelihood = "quadratic" THEN QuadraticScore(field_list)
    ELSE EnsembleScore(field_list)

(***************************************************************************)
(* Pipeline._core_likelihood, lines 324-372.                               *)
(***************************************************************************)
Min(a, b) == IF a < b THEN a ELSE b

\* A boundary check that forgets the lower bound.
OutOfBounds_UpperOnly(cube) == \E i \in DOMAIN cube : cube[i] > Unit

\* np.any(cube > 1.) or np.any(cube < 0.), line 341.
OutOfBounds(cube) == \E i \in DOMAIN cube : cube[i] > Unit \/ cube[i] < 0

\* A slice that always starts at the head of the cube.
CubeSlice_FromZero(cube, head_idx, tail_idx) ==
    LET n == Min(tail_idx - head_idx, Len(cube))
    IN  [i \in 1..(IF n > 0 THEN n ELSE 0) |-> cube[i]]

\* cube[head_idx:tail_idx], line 355: a slice stops at the end of the cube.
CubeSlice(cube, head_idx, tail_idx) ==
    LET n == Min(tail_idx, Len(cube)) - head_idx
    IN  [i \in 1..(IF n > 0 THEN n ELSE 0) |-> cube[head_idx + i]]

\* A variable dict that holds the coordinates mapped onto [0, 10].
VariableDict_Physical(aps, factory_cube) ==
    [av \in Range(aps) |->
        10 * factory_cube[CHOOSE i \in DOMAIN aps :
                             aps[i] = av /\ \A k \in DOMAIN aps : aps[k] = av => k <= i]]

\* variable_dict of lines 353-357; a repeated name keeps its last value.
VariableDict(aps, factory_cube) ==
    [av \in Range(aps) |->
        factory_cube[CHOOSE i \in DOMAIN aps :
                        aps[i] = av /\ \A k \in DOMAIN aps : aps[k] = av => k <= i]]

\* The loop of lines 352-362 from position j of _factory_list.
RECURSIVE GenerateFields(_, _, _, _, _)
GenerateFields(cube, seeds, entropy, j, st) ==
    IF st.error # None \/ j > Len(_factory_list)
    THEN st
    ELSE LET fid == _factory_list[j]
             aps == factories[fid].active_parameters
             tail_idx == st.head_idx + Len(aps)
             factory_cube == CubeSlice(cube, st.head_idx, tail_idx)
         IN  IF Len(factory_cube) < Len(aps)
             THEN [st EXCEPT !.error = "IndexError"]
             ELSE GenerateFields(cube, seeds, entropy, j + 1,
                      [head_idx |-> tail_idx,
                       field_list |-> Append(st.field_list,
                           Generate(fid, VariableDict(aps, factory_cube),
                                    factory_cube, _ensemble_size, seeds, entropy)),
                       error |-> None])

NoResult(r) ==
    [outcome |-> "raise", error |-> None, value |-> None, field_list |-> << >>,
     simulated |-> FALSE, scored |-> FALSE, score |-> None, rnd |-> r]

\* A guard whose comparison is the wrong way round.
ThresholdTripped_Reversed(current_likelihood) ==
    check_threshold /\ current_likelihood < likelihood_threshold

\* A guard that compares the rescaled score.
ThresholdTripped_AfterRescaling(current_likelihood) ==
    check_threshold
    /\ current_likelihood * likelihood_rescaler > likelihood_threshold

\* The threshold guard, lines 370-371.
ThresholdTripped(current_likelihood) ==
    check_threshold /\ current_likelihood > likelihood_threshold

\* The rescaling, line 372.
Rescaled(current_likelihood) == current_likelihood * likelihood_rescaler

\* A rejection that runs the randomness controller before it returns.
Rejected_AfterRandomness(r) ==
    [NoResult(Randomness(r).rnd) EXCEPT !.outcome = "return", !.value = Sentinel]

\* The early return of lines 342-343: nothing has been called yet.
Rejected(r) ==
    [NoResult(r) EXCEPT !.outcome = "return", !.value = Sentinel]

\* An assertion that lets every head index pass.
HeadIdxAsserted_Always(head_idx) == TRUE

\* assert(head_idx == len(self._active_parameters)), line 363.
HeadIdxAsserted(head_idx) == head_idx = Len(_active_parameters)

\* What one call _core_likelihood(cube) does on a pipeline whose randomness
\* state is r, with the process's time-dependent seed being entropy.
CoreLikelihood(cube, r, entropy) ==
    IF OutOfBounds(cube)
    THEN Rejected(r)
    ELSE LET rr == Randomness(r)
         IN  IF rr.error # None
             THEN [NoResult(rr.rnd) EXCEPT !.error = rr.error]
             ELSE
             LET g == GenerateFields(cube, rr.rnd._ensemble_seeds, entropy, 1,
                          [head_idx |-> 0, field_list |-> << >>, error |-> None])
                 current_likelihood == LikelihoodScore(g.field_list)
                 ran == [NoResult(rr.rnd) EXCEPT !.field_list = g.field_list]
             IN  IF g.error # None
                 THEN [ran EXCEPT !.error = g.error]
                 ELSE IF ~HeadIdxAsserted(g.head_idx)
                 THEN [ran EXCEPT !.error = "AssertionError"]
                 ELSE IF ThresholdTripped(current_likelihood)
                 THEN [ran EXCEPT !.error = "ValueError", !.simulated = TRUE,
                                  !.scored = TRUE, !.score = current_likelihood]
                 ELSE [ran EXCEPT !.outcome = "return", !.simulated = TRUE,
                                  !.scored = TRUE, !.score = current_likelihood,
                                  !.value = Rescaled(current_likelihood)]

(***************************************************************************)
(* The cubes the sampler proposes: a ramp of in-bounds coordinates, or the *)
(* ramp with one coordinate below 0 or above 1.                            *)
(***************************************************************************)
Ramp(n) == [i \in 1..n |-> i % (Unit + 1)]

CubesOfLength(n) ==
    {Ramp(n)} \cup {[Ramp(n) EXCEPT ![k] = v] : k \in 1..n, v \in {-1, Unit + 1}}

Cubes == UNION {CubesOfLength(n) : n \in 0..MaxCubeLen}

(***************************************************************************)
(* Objects beside the pipeline: the dicts and GeneralField objects of      *)
(* fields/field.py and the dictionaries of observables/observable_dict.py. *)
(* A dict object is known by its identity: "default" is the one dict the   *)
(* def statement of GeneralField.__init__ creates for parameters=dict(),   *)
(* and each field has one dict the caller may build for it.                *)
(***************************************************************************)
FieldIds == {"f1", "f2"}

OwnDict(f) == IF f = "f1" THEN "d1" ELSE "d2"

DictIds == {"default"} \cup {OwnDict(f) : f \in FieldIds}

NotConstructed ==
    [constructed |-> FALSE, field_checklist |-> {}, _name |-> None,
     _parameters |-> None, _ensemble_size |-> 0, _random_seed |-> 0]

\* No field has been constructed; the default dict exists and is empty.
NoFields ==
    /\ dicts = [d \in DictIds |-> << >>]
    /\ field_objs = [f \in FieldIds |-> NotConstructed]

\* The caller holds an empty Measurements dictionary and an empty Masks.
NoObservables ==
    /\ obs_type = "Measurements"
    /\ obs_archive = << >>
    /\ mask_archive = << >>

\* self.sampling_controllers = dict() in __init__, line 61: the attribute
\* does not exist yet, and the setter's except branch stores the new dict.
OthersIdle ==
    /\ _sampling_controllers = << >>
    /\ NoFields
    /\ NoObservables

(***************************************************************************)
(* The pipeline object after __init__, lines 53-79, for a factory list the *)
(* setter accepts.                                                         *)
(***************************************************************************)
Idle == [op |-> "init", arg |-> None, res |-> None]

ConstructorLists ==
    {fl \in FactoryLists : BuildRegistry(InitialFactories, fl).error = None}

IdleProcs == [p \in 0..(MpiSize - 1) |-> [pc |-> "idle"]]

\* An attribute that is None or holds a value: the empty sequence, or the
\* sequence of that one value.
Unset == << >>

\* The place holders of lines 77-79.
NoResults ==
    /\ _evidence = Unset
    /\ _evidence_err = Unset
    /\ _samples_array = Unset

\* factory_list = fl in __init__, line 55.
InitFactoryList(fl) ==
    LET reg == BuildRegistry(InitialFactories, fl)
    IN  /\ factories = InitialFactories
        /\ _factory_list = fl
        /\ _active_parameters = reg.active_parameters
        /\ _active_ranges = reg.active_ranges
        /\ _priors = reg.priors

InitWith(fl) ==
    /\ InitFactoryList(fl)
    /\ _ensemble_size = 1
    /\ likelihood_rescaler = 1
    /\ random_type = "free"
    /\ check_threshold = FALSE
    /\ likelihood_threshold = 0
    /\ _likelihood = "ensemble"
    /\ rnd = InitialRnd
    /\ last = Idle
    /\ sampler_supports_mpi = TRUE
    /\ procs = IdleProcs
    /\ scattered = None
    /\ NoResults
    /\ OthersIdle

(***************************************************************************)
(* Operations on one pipeline object.                                      *)
(***************************************************************************)
\* A setter that updates the registry's dicts instead of rebuilding them.
AssignFactoryList_Merging(value) ==
    LET reg == RegisterFactories(
                   [EmptyRegistry EXCEPT !.active_ranges = _active_ranges,
                                         !.priors = _priors],
                   factories, value, 1)
    IN  /\ _active_parameters' = reg.active_parameters
        /\ _active_ranges' = reg.active_ranges
        /\ _priors' = reg.priors
        /\ _factory_list' = IF reg.error = None THEN value ELSE _factory_list
        /\ last' = [op |-> "factory_list", arg |-> value,
                    res |-> [outcome |-> IF reg.error = None THEN "return"
                                         ELSE "raise",
                             error |-> reg.error]]
        /\ UNCHANGED <<factories, configVars, rnd, mpiVars,
                       resultVars,
                   otherVars>>

\* pipeline.factory_list = value, lines 179-200.
AssignFactoryList(value) ==
    LET reg == BuildRegistry(factories, value)
    IN  /\ _active_parameters' = reg.active_parameters
        /\ _active_ranges' = reg.active_ranges
        /\ _priors' = reg.priors
        /\ _factory_list' = IF reg.error = None THEN value ELSE _factory_list
        /\ last' = [op |-> "factory_list", arg |-> value,
                    res |-> [outcome |-> IF reg.error = None THEN "return"
                                         ELSE "raise",
                             error |-> reg.error]]
        /\ UNCHANGED <<factories, configVars, rnd, mpiVars,
                       resultVars,
                   otherVars>>

\* factory.active_parameters = aps, by the caller that owns the factory.
SetFactoryActiveParameters(f, aps) ==
    /\ aps # factories[f].active_parameters
    /\ factories' = [factories EXCEPT ![f].active_parameters = aps]
    /\ last' = [op |-> "active_parameters", arg |-> f, res |-> None]
    /\ UNCHANGED <<registryVars, configVars, rnd, mpiVars,
                   resultVars,
                   otherVars>>

\* The generator's position stays within MaxDraws.
DrawsAllowed(r) ==
    random_type = "controllable" => r.np_pos + _ensemble_size <= MaxDraws

\* pipeline._core_likelihood(cube), lines 324-372.
CoreEvaluation(cube, entropy) ==
    LET res == CoreLikelihood(cube, rnd, entropy)
    IN  /\ DrawsAllowed(rnd)
        /\ rnd' = res.rnd
        /\ last' = [op |-> "_core_likelihood", arg |-> cube,
                    res |-> [res EXCEPT !.rnd = None]]
        /\ UNCHANGED <<factories, registryVars, configVars, mpiVars,
                       resultVars,
                   otherVars>>

\* The attributes the caller sets on the pipeline, lines 64-73.
RandomTypes == {"free", "controllable", "fixed", "other"}

Thresholds == {0, 1}

Rescalers == {1, 2}

Configured == [op |-> "configure", arg |-> None, res |-> None]

SetRandomType(t) ==
    /\ t # random_type
    /\ random_type' = t
    /\ last' = Configured
    /\ UNCHANGED <<factories, registryVars, _ensemble_size, likelihood_rescaler,
                   check_threshold, likelihood_threshold, rnd, mpiVars,
                   resultVars, _likelihood,
                   otherVars>>

SetCheckThreshold(b) ==
    /\ b # check_threshold
    /\ check_threshold' = b
    /\ last' = Configured
    /\ UNCHANGED <<factories, registryVars, _ensemble_size, likelihood_rescaler,
                   random_type, likelihood_threshold, rnd, mpiVars,
                   resultVars, _likelihood,
                   otherVars>>

SetLikelihoodThreshold(v) ==
    /\ v # likelihood_threshold
    /\ likelihood_threshold' = v
    /\ last' = Configured
    /\ UNCHANGED <<factories, registryVars, _ensemble_size, likelihood_rescaler,
                   random_type, check_threshold, rnd, mpiVars,
                   resultVars, _likelihood,
                   otherVars>>

SetLikelihoodRescaler(v) ==
    /\ v # likelihood_rescaler
    /\ likelihood_rescaler' = v
    /\ last' = Configured
    /\ UNCHANGED <<factories, registryVars, _ensemble_size, random_type,
                   check_threshold, likelihood_threshold, rnd, mpiVars,
                   resultVars, _likelihood,
                   otherVars>>

\* pipeline.likelihood = likelihood, lines 219-222.
Likelihoods == {"ensemble", "quadratic"}

SetLikelihood(likelihood) ==
    /\ likelihood # _likelihood
    /\ _likelihood' = likelihood
    /\ last' = Configured
    /\ UNCHANGED <<factories, registryVars, _ensemble_size, likelihood_rescaler,
                   random_type, check_threshold, likelihood_threshold, rnd,
                   mpiVars, resultVars,
                   otherVars>>

\* pipeline.seed_tracer = seed_tracer, lines 298-302.
SetSeedTracer(seed_tracer) ==
    /\ rnd' = SeedTracerSet(rnd, seed_tracer)
    /\ last' = [op |-> "seed_tracer", arg |-> seed_tracer, res |-> None]
    /\ UNCHANGED <<factories, registryVars, configVars, mpiVars,
                   resultVars,
                   otherVars>>

\* pipeline.ensemble_size = ensemble_size, lines 273-278: a size that is not
\* positive fails the assertion and the size held stays.
SetEnsembleSize(ensemble_size) ==
    /\ ensemble_size # _ensemble_size
    /\ _ensemble_size' = IF ensemble_size > 0 THEN ensemble_size
                         ELSE _ensemble_size
    /\ last' = [op |-> "ensemble_size", arg |-> ensemble_size,
                res |-> [outcome |-> IF ensemble_size > 0 THEN "return"
                                     ELSE "raise",
                         error |-> IF ensemble_size > 0 THEN None
                                   ELSE "AssertionError"]]
    /\ UNCHANGED <<factories, registryVars, likelihood_rescaler, random_type,
                   check_threshold, likelihood_threshold, rnd, mpiVars,
                   resultVars, _likelihood,
                   otherVars>>

(***************************************************************************)
(* The prior objects and the two prior operations, lines 225-267.  A prior *)
(* maps a unit value to a physical value (its call) and a value to a       *)
(* density (pdf).  FlatPrior is flat on [0, 10]; GaussianPrior stands for  *)
(* any prior whose mapping is not linear.  Physical values, like cube      *)
(* coordinates, are in units of 1/Unit; densities are in units of the flat *)
(* prior's density.                                                        *)
(***************************************************************************)
FlatXmin == 0

FlatXmax == 10

\* prior(u): the unit -> physical mapping.
PriorCall(prior, u) ==
    IF prior = "FlatPrior" THEN FlatXmin * Unit + u * (FlatXmax - FlatXmin)
    ELSE u * u * u - 4

\* prior.pdf(x).
PriorDensity(prior, x) ==
    IF prior = "FlatPrior"
    THEN (IF FlatXmin * Unit <= x /\ x <= FlatXmax * Unit THEN 1 ELSE 0)
    ELSE (IF x < 0 THEN 0 - x ELSE x) + 2

\* The values uninitialised memory of np.empty_like may hold.
Garbage == {0, 50}

\* The loop of lines 265-266 from position i of the priors dict: cube is
\* changed in place; an index past the cube's end raises.
RECURSIVE PriorTransformLoop(_, _)
PriorTransformLoop(cube, i) ==
    IF i > Len(_priors) THEN [cube |-> cube, error |-> None]
    ELSE IF i > Len(cube) THEN [cube |-> cube, error |-> "IndexError"]
    ELSE PriorTransformLoop(
             [cube EXCEPT ![i] = PriorCall(_priors[i][2], cube[i])], i + 1)

\* The loop of lines 241-242 from position i: the density is taken at
\* cube_rtn[i], the value np.empty_like left there, not at cube[i].
RECURSIVE PriorPdfLoop(_, _)
PriorPdfLoop(cube_rtn, i) ==
    IF i > Len(_priors) THEN [cube |-> cube_rtn, error |-> None]
    ELSE IF i > Len(cube_rtn) THEN [cube |-> cube_rtn, error |-> "IndexError"]
    ELSE PriorPdfLoop(
             [cube_rtn EXCEPT ![i] = PriorDensity(_priors[i][2], cube_rtn[i])],
             i + 1)

\* The unit cubes the sampler hands to the prior operations: as long as the
\* registry's name tuple.
UnitCubes == [1..Len(_active_parameters) -> 0..Unit]

\* pipeline.prior_transform(cube), lines 246-267.
PriorTransform(cube) ==
    LET r == PriorTransformLoop(cube, 1)
    IN  /\ last' = [op |-> "prior_transform", arg |-> cube,
                    res |-> [outcome |-> IF r.error = None THEN "return"
                                         ELSE "raise",
                             error |-> r.error, value |-> r.cube]]
        /\ UNCHANGED <<factories, registryVars, configVars, rnd, mpiVars,
                       resultVars,
                   otherVars>>

\* pipeline.prior_pdf(cube), lines 225-243; empty is what np.empty_like
\* returned.
PriorPdf(cube, empty) ==
    LET r == PriorPdfLoop(empty, 1)
    IN  /\ Len(empty) = Len(cube)
        /\ last' = [op |-> "prior_pdf", arg |-> cube,
                    res |-> [outcome |-> IF r.error = None THEN "return"
                                         ELSE "raise",
                             error |-> r.error, value |-> r.cube]]
        /\ UNCHANGED <<factories, registryVars, configVars, rnd, mpiVars,
                       resultVars,
                   otherVars>>

(***************************************************************************)
(* The results of a sampling run and their accessors, lines 105-167.  The  *)
(* run itself belongs to the sub-classes: when it completes it stores the  *)
(* evidence, its error and the array of unit-scale samples, one column per *)
(* active parameter.                                                       *)
(***************************************************************************)
Evidences == {-3, -7}

EvidenceErrs == {1}

\* Rows of unit-scale samples with n columns.
SampleRows(n) == {[i \in 1..n |-> (i + k) % (Unit + 1)] : k \in 0..Unit}

SampleArrays ==
    UNION {[1..m -> SampleRows(Len(_active_parameters))] : m \in 1..MaxSamples}

\* The sampler's run has completed and stored its results.
RunCompleted(evidence, evidence_err, samples_array) ==
    /\ _evidence' = <<evidence>>
    /\ _evidence_err' = <<evidence_err>>
    /\ _samples_array' = samples_array
    /\ last' = [op |-> "run", arg |-> None, res |-> None]
    /\ UNCHANGED <<factories, registryVars, configVars, rnd, mpiVars,
                   otherVars>>

Raised(error) == [outcome |-> "raise", error |-> error, value |-> None]

Returned(value) == [outcome |-> "return", error |-> None, value |-> value]

\* An accessor is a property: it assigns nothing.
Accessed(op, res) ==
    /\ last' = [op |-> op, arg |-> None, res |-> res]
    /\ UNCHANGED <<factories, registryVars, configVars, rnd, mpiVars,
                   resultVars,
                   otherVars>>

\* An accessor that answers None when nothing is stored.
ReadLogEvidence_Silent ==
    Accessed("log_evidence",
             IF _evidence = Unset THEN Returned(None)
             ELSE Returned(_evidence[1]))

\* pipeline.log_evidence, lines 105-121.
ReadLogEvidence ==
    Accessed("log_evidence",
             IF _evidence = Unset THEN Raised("ValueError")
             ELSE Returned(_evidence[1]))

\* pipeline.log_evidence_err, lines 123-135.
ReadLogEvidenceErr ==
    Accessed("log_evidence_err",
             IF _evidence_err = Unset THEN Raised("AssertionError")
             ELSE Returned(_evidence_err[1]))

\* astropy's QTable(data=, names=): one column per name, in order; it
\* refuses names that do not match the columns one to one.
QTable(data, names) ==
    IF \/ \E r \in DOMAIN data : Len(data[r]) # Len(names)
       \/ Cardinality(Range(names)) # Len(names)
    THEN Raised("ValueError")
    ELSE Returned([i \in DOMAIN names |->
                      <<names[i], [r \in DOMAIN data |-> data[r][i]]>>])

\* The value of the property samples_scaled, lines 147-149.
SamplesScaled ==
    IF _samples_array = Unset THEN Raised("AssertionError")
    ELSE QTable(_samples_array, _active_parameters)

\* table[param] = table[param]*(pmax - pmin)+pmin, line 165.
RescaleColumn(column, pmin, pmax) ==
    [r \in DOMAIN column |-> column[r] * (pmax - pmin) + pmin * Unit]

\* The loop of lines 163-165 from position i of active_parameters.
RECURSIVE SamplesLoop(_, _)
SamplesLoop(table, i) ==
    IF i > Len(_active_parameters) THEN Returned(table)
    ELSE LET param == _active_parameters[i]
         IN  IF ~DictHas(_active_ranges, param) THEN Raised("KeyError")
             ELSE LET range == DictGet(_active_ranges, param)
                  IN  SamplesLoop(
                          DictSet(table, param,
                                  RescaleColumn(DictGet(table, param),
                                                range[1], range[2])),
                          i + 1)

\* The value of the property samples, lines 161-167.
Samples ==
    LET scaled == SamplesScaled
    IN  IF scaled.outcome = "raise" THEN scaled
        ELSE SamplesLoop(scaled.value, 1)

\* pipeline.samples_scaled, lines 137-149.
ReadSamplesScaled == Accessed("samples_scaled", SamplesScaled)

\* A read of samples that writes the scaled columns back into the stored
\* array.
ReadSamples_InPlace ==
    LET res == Samples
    IN  /\ last' = [op |-> "samples", arg |-> None, res |-> res]
        /\ _samples_array' =
              IF res.outcome = "return"
              THEN [r \in DOMAIN _samples_array |->
                       [i \in DOMAIN res.value |-> res.value[i][2][r]]]
              ELSE _samples_array
        /\ UNCHANGED <<factories, registryVars, configVars, rnd, mpiVars,
                       _evidence, _evidence_err,
                   otherVars>>

\* pipeline.samples, lines 151-167.
ReadSamples == Accessed("samples", Samples)

(***************************************************************************)
(* Pipeline.sampling_controllers, lines 280-291.                           *)
(***************************************************************************)
ControllerKeys == <<"max_iter", "n_live_points", "resume">>

ControllerValues == {"a", "b"}

\* The dicts the caller assigns: any of the keys, in the order above.
RECURSIVE ControllerDictsFrom(_)
ControllerDictsFrom(i) ==
    IF i > Len(ControllerKeys) THEN {<< >>}
    ELSE LET rest == ControllerDictsFrom(i + 1)
         IN  rest \cup {<< <<ControllerKeys[i], v>> >> \o d :
                           v \in ControllerValues, d \in rest}

ControllerDicts == ControllerDictsFrom(1)

\* dict.update(other): every entry of other is set, in other's order.
RECURSIVE DictUpdate(_, _)
DictUpdate(d, other) ==
    IF other = << >> THEN d
    ELSE DictUpdate(DictSet(d, other[1][1], other[1][2]), Tail(other))

\* A setter that stores the assigned dict in place of the held one.
SetSamplingControllers_Replacing(pp_dict) ==
    /\ _sampling_controllers' = pp_dict
    /\ last' = [op |-> "sampling_controllers", arg |-> pp_dict, res |-> None]
    /\ UNCHANGED <<factories, registryVars, configVars, rnd, mpiVars,
                   resultVars, fieldVars, observableVars>>

\* pipeline.sampling_controllers = pp_dict after construction, lines
\* 284-291: the attribute exists and is updated in place.
SetSamplingControllers(pp_dict) ==
    /\ _sampling_controllers' = DictUpdate(_sampling_controllers, pp_dict)
    /\ last' = [op |-> "sampling_controllers", arg |-> pp_dict, res |-> None]
    /\ UNCHANGED <<factories, registryVars, configVars, rnd, mpiVars,
                   resultVars, fieldVars, observableVars>>

(***************************************************************************)
(* GeneralField, fields/field.py.  A field class fixes field_checklist;    *)
(* the base class's is empty.                                              *)
(***************************************************************************)
FieldChecklists == {{}, {"a"}, {"a", "random_seed"}}

\* The dicts a caller passes as parameters.
FieldParameterDicts ==
    {<< >>, << <<"a", 1>> >>, << <<"a", 2>> >>, << <<"b", 1>> >>,
     << <<"a", 1>>, <<"b", 1>> >>}

\* random_seed: None, or a number.
RandomSeeds == {<< >>, <<1>>, <<2>>}

\* The random_seed setter, lines 65-70.
RandomSeedSet(random_seed) ==
    IF random_seed = << >> THEN 0 ELSE random_seed[1]

\* for k in parameters: assert (k in self.field_checklist.keys()), lines 78-79.
ChecklistAccepts(checklist, parameters) ==
    \A i \in DOMAIN parameters : parameters[i][1] \in checklist

FieldOutcome(error) ==
    [outcome |-> IF error = None THEN "return" ELSE "raise", error |-> error]

\* GeneralField.__init__, lines 28-36, for a new object f of the class with
\* the given checklist.  With use_default the parameters argument is left
\* out and is the def statement's dict; otherwise the caller passes a new
\* dict holding given.  The first assignment of parameters stores the dict
\* object itself (line 85), and line 35 updates that object.
ConstructField(f, checklist, use_default, given, ensemble_size, random_seed) ==
    LET pid == IF use_default THEN "default" ELSE OwnDict(f)
        passed == IF use_default THEN dicts["default"] ELSE given
        seed == RandomSeedSet(random_seed)
        error == IF ~ChecklistAccepts(checklist, passed) THEN "AssertionError"
                 ELSE IF ~(ensemble_size > 0) THEN "AssertionError"
                 ELSE None
    IN  /\ ~field_objs[f].constructed
        /\ IF error # None
           THEN UNCHANGED <<dicts, field_objs>>
           ELSE /\ field_objs' = [field_objs EXCEPT ![f] =
                       [constructed |-> TRUE, field_checklist |-> checklist,
                        _name |-> "general", _parameters |-> pid,
                        _ensemble_size |-> ensemble_size,
                        _random_seed |-> seed]]
                /\ dicts' = [dicts EXCEPT ![pid] =
                       IF "random_seed" \in checklist
                       THEN DictSet(passed, "random_seed", seed)
                       ELSE passed]
        /\ last' = [op |-> "GeneralField",
                    arg |-> [field |-> f, parameters |-> passed],
                    res |-> FieldOutcome(error)]
        /\ UNCHANGED <<factories, registryVars, configVars, rnd, mpiVars,
                       resultVars, _sampling_controllers, observableVars>>

\* field.parameters = parameters on a constructed field, lines 76-86: the
\* attribute exists and the held dict is updated in place.
AssignFieldParameters(f, parameters) ==
    LET accepted == ChecklistAccepts(field_objs[f].field_checklist, parameters)
    IN  /\ field_objs[f].constructed
        /\ dicts' = IF accepted
                    THEN [dicts EXCEPT ![field_objs[f]._parameters] =
                             DictUpdate(@, parameters)]
                    ELSE dicts
        /\ last' = [op |-> "parameters",
                    arg |-> [field |-> f, parameters |-> parameters],
                    res |-> FieldOutcome(IF accepted THEN None
                                         ELSE "AssertionError")]
        /\ UNCHANGED <<factories, registryVars, configVars, rnd, mpiVars,
                       resultVars, _sampling_controllers, field_objs,
                       observableVars>>

(***************************************************************************)
(* The observable dictionaries, observables/observable_dict.py.  A key is  *)
(* (name, frequency, Nside or size, tag); an array is a sequence of rows;  *)
(* an archive is a dict from keys to Observable objects.  An Observable is *)
(* [data, dtype, alias]: in a dictionary that Masks.__call__ builds, alias *)
(* is the position in the input's archive of the entry whose Observable    *)
(* object this is, and 0 for an Observable made for this dictionary.       *)
(***************************************************************************)
ObservableTypes == {"Measurements", "Simulations", "Covariances", "Masks"}

ObservableKeys == {<<"test", "nan", "4", "nan">>, <<"test", "nan", "2", "nan">>}

\* int(Nside) and str(n) for the sizes that occur.
IntOf(str) ==
    CASE str = "0" -> 0 [] str = "1" -> 1 [] str = "2" -> 2
      [] str = "3" -> 3 [] str = "4" -> 4

StrOf(n) ==
    CASE n = 0 -> "0" [] n = 1 -> "1" [] n = 2 -> "2"
      [] n = 3 -> "3" [] n = 4 -> "4"

\* _Nside_to_Npixels, lines 374-375.
_Nside_to_Npixels(Nside) == 12 * IntOf(Nside) * IntOf(Nside)

\* new_data.shape[1].
Columns(data) == IF data = << >> THEN 0 ELSE Len(data[1])

\* The arrays a caller appends under a key, as long as the key's size says:
\* one row of data, or a diagonal covariance matrix.
DataRow(name, variant) ==
    [j \in 1..IntOf(name[3]) |-> j + 4 * variant]

DiagonalMatrix(name, variant) ==
    [i \in 1..IntOf(name[3]) |->
        [j \in 1..IntOf(name[3]) |-> IF i = j THEN i + 4 * variant ELSE 0]]

NewData(type, name, variant) ==
    IF type = "Covariances" THEN DiagonalMatrix(name, variant)
    ELSE <<DataRow(name, variant)>>

\* The mask rows a caller appends under a key: 1 keeps a pixel, 0 drops it.
MaskRows(name) ==
    IF name[3] = "4" THEN {<<1, 1, 0, 0>>, <<1, 0, 1, 1>>} ELSE {<<1, 0>>}

\* The elements of seq at the positions where the mask row holds 1.
RECURSIVE Kept(_, _)
Kept(seq, mask_row) ==
    IF seq = << >> THEN << >>
    ELSE (IF Head(mask_row) = 1 THEN <<Head(seq)>> ELSE << >>)
             \o Kept(Tail(seq), Tail(mask_row))

\* imagine.tools.mask_obs: the columns the mask keeps, as in the example of
\* lines 137-141.
mask_obs(data, mask) == [r \in DOMAIN data |-> Kept(data[r], mask[1])]

\* imagine.tools.mask_cov: the rows and columns the mask keeps, as in the
\* example of lines 142-146.
mask_cov(cov, mask) ==
    LET rows == Kept(cov, mask[1])
    IN  [r \in DOMAIN rows |-> Kept(rows[r], mask[1])]

NdArray(data) == [kind |-> "ndarray", data |-> data, dtype |-> None, alias |-> 0]

ObservableRef(observable, alias) ==
    [kind |-> "Observable", data |-> observable.data,
     dtype |-> observable.dtype, alias |-> alias]

Observable(data, dtype, alias) == [data |-> data, dtype |-> dtype, alias |-> alias]

Stored(archive) == [archive |-> archive, error |-> None, mutated |-> 0]

Refused(archive, error) == [archive |-> archive, error |-> error, mutated |-> 0]

\* {name: observable} put into the archive by dict.update.
ArchiveUpdate(archive, name, new, dtype) ==
    Stored(DictSet(archive, name,
                   Observable(new.data,
                              IF new.kind = "Observable" THEN new.dtype ELSE dtype,
                              new.alias)))

\* Observable.append on the Observable held under name: the rows of new are
\* added to its data.  The Observable object may be one the input
\* dictionary holds too (mutated is then its position there).
ObservableAppend(archive, name, new) ==
    LET held == DictGet(archive, name)
    IN  IF Columns(held.data) # Columns(new.data)
        THEN Refused(archive, "ValueError")
        ELSE [archive |-> DictSet(archive, name,
                              [held EXCEPT !.data = held.data \o new.data]),
              error |-> None,
              mutated |-> held.alias]

\* append(name, new_data, plain) of the four classes: Masks, lines 151-181;
\* Measurements, lines 237-282; Simulations, lines 293-322; Covariances,
\* lines 334-371.
ArchiveAppend(type, archive, name, new, plain) ==
    IF Len(name) # 4 THEN Refused(archive, "AssertionError")
    ELSE CASE type = "Masks" ->
                IF new.kind = "Observable"
                THEN IF new.dtype # "measured"
                        \/ (~plain /\ Columns(new.data) # _Nside_to_Npixels(name[3]))
                     THEN Refused(archive, "AssertionError")
                     ELSE ArchiveUpdate(archive, name, new, "measured")
                ELSE IF Len(new.data) # 1
                        \/ (~plain /\ Columns(new.data) # _Nside_to_Npixels(name[3]))
                     THEN Refused(archive, "AssertionError")
                     ELSE ArchiveUpdate(archive, name, new, "measured")
           [] type = "Measurements" ->
                IF new.kind = "Observable"
                THEN IF new.dtype # "measured"
                     THEN Refused(archive, "AssertionError")
                     ELSE ArchiveUpdate(archive, name, new, "measured")
                ELSE IF ~plain /\ Columns(new.data) # _Nside_to_Npixels(name[3])
                     THEN Refused(archive, "AssertionError")
                     ELSE ArchiveUpdate(archive, name, new, "measured")
           [] type = "Simulations" ->
                IF DictHas(archive, name)
                THEN ObservableAppend(archive, name, new)
                ELSE ArchiveUpdate(archive, name, new, "simulated")
           [] type = "Covariances" ->
                IF new.kind = "Observable"
                THEN ArchiveUpdate(archive, name, new, "covariance")
                ELSE IF ~plain /\ Columns(new.data) # _Nside_to_Npixels(name[3])
                     THEN Refused(archive, "AssertionError")
                     ELSE ArchiveUpdate(archive, name, new, "covariance")

\* The realisations a simulated Observable of the caller may grow to.
RowsWithin(archive) ==
    \A i \in DOMAIN archive :
        archive[i][2].dtype = "simulated" => Len(archive[i][2].data) <= MaxRows

\* The caller makes a new, empty dictionary of a class, lines 84-88.
NewObservableDict(type) ==
    /\ obs_type' = type
    /\ obs_archive' = << >>
    /\ last' = [op |-> "ObservableDict", arg |-> type, res |-> None]
    /\ UNCHANGED <<factories, registryVars, configVars, rnd, mpiVars,
                   resultVars, _sampling_controllers, fieldVars, mask_archive>>

\* observable_dict.append(name, new_data, plain) with an array.
AppendObservable(name, variant, plain) ==
    LET r == ArchiveAppend(obs_type, obs_archive, name,
                           NdArray(NewData(obs_type, name, variant)), plain)
    IN  /\ RowsWithin(r.archive)
        /\ obs_archive' = r.archive
        /\ last' = [op |-> "append", arg |-> name,
                    res |-> FieldOutcome(r.error)]
        /\ UNCHANGED <<factories, registryVars, configVars, rnd, mpiVars,
                       resultVars, _sampling_controllers, fieldVars, obs_type,
                       mask_archive>>

\* masks.append(name, new_data, plain) with a one-row array.
AppendMask(name, mask_row, plain) ==
    LET r == ArchiveAppend("Masks", mask_archive, name, NdArray(<<mask_row>>),
                           plain)
    IN  /\ mask_archive' = r.archive
        /\ last' = [op |-> "Masks.append", arg |-> name,
                    res |-> FieldOutcome(r.error)]
        /\ UNCHANGED <<factories, registryVars, configVars, rnd, mpiVars,
                       resultVars, _sampling_controllers, fieldVars, obs_type,
                       obs_archive>>

\* new_name, line 222.
MaskedName(name, masked_data) ==
    <<name[1], name[2], StrOf(Columns(masked_data)), name[4]>>

\* The loop of lines 207-225 from position i of the input's archive.  st
\* holds the archive of masked_dict and the input's archive as it stands.
RECURSIVE MaskLoop(_, _, _)
MaskLoop(type, i, st) ==
    IF st.error # None \/ i > Len(st.input) THEN st
    ELSE LET name == st.input[i][1]
             observable == st.input[i][2]
             r == IF ~DictHas(mask_archive, name)
                  THEN ArchiveAppend(type, st.masked, name,
                                     ObservableRef(observable, i), FALSE)
                  ELSE LET mask == DictGet(mask_archive, name).data
                           masked_data ==
                               IF type = "Covariances"
                               THEN mask_cov(observable.data, mask)
                               ELSE mask_obs(observable.data, mask)
                       IN  ArchiveAppend(type, st.masked,
                                         MaskedName(name, masked_data),
                                         NdArray(masked_data), TRUE)
         IN  MaskLoop(type, i + 1,
                 [masked |-> r.archive,
                  input |-> IF r.mutated = 0 THEN st.input
                            ELSE LET held == CHOOSE e \in Range(r.archive) :
                                                e[2].alias = r.mutated
                                 IN  [st.input EXCEPT ![r.mutated][2].data =
                                          held[2].data],
                  error |-> r.error])

\* masks(observable_dict): Masks.__call__, lines 183-226.
ApplyMasks ==
    LET accepted == obs_type \in {"Measurements", "Simulations", "Covariances"}
        st == IF accepted
              THEN MaskLoop(obs_type, 1,
                       [masked |-> << >>, input |-> obs_archive, error |-> None])
              ELSE [masked |-> << >>, input |-> obs_archive,
                    error |-> "AssertionError"]
    IN  /\ RowsWithin(st.input)
        /\ obs_archive' = st.input
        /\ last' = [op |-> "Masks.__call__",
                    arg |-> [type |-> obs_type, archive |-> obs_archive],
                    res |-> [outcome |-> IF st.error = None THEN "return"
                                         ELSE "raise",
                             error |-> st.error,
                             type |-> obs_type,
                             archive |-> st.masked]]
        /\ UNCHANGED <<factories, registryVars, configVars, rnd, mpiVars,
                       resultVars, _sampling_controllers, fieldVars, obs_type,
                       mask_archive>>

(***************************************************************************)
(* Specifications.  Spec: a pipeline constructed with any accepted factory *)
(* list, whose factories the caller changes between core evaluations.      *)
(* SpecRegistry: the factory list is assigned again and again.             *)
(* SpecGuards: the caller configures the guards between core evaluations.  *)
(***************************************************************************)
Init == \E fl \in ConstructorLists : InitWith(fl)

Next ==
    \/ \E f \in FactoryIds : \E aps \in ActiveChoices(f) :
           SetFactoryActiveParameters(f, aps)
    \/ \E cube \in Cubes : \E entropy \in Entropy : CoreEvaluation(cube, entropy)

Spec == Init /\ [][Next]_vars

InitRegistry == InitWith(<<"fa">>)

NextRegistry ==
    \/ \E value \in FactoryLists : AssignFactoryList(value)
    \/ \E aps \in ActiveChoices("fa") : SetFactoryActiveParameters("fa", aps)

SpecRegistry == InitRegistry /\ [][NextRegistry]_vars

GuardLists == {<< >>, <<"fab">>, <<"fa">>, <<"fa", "fab">>}

InitGuards == \E fl \in GuardLists : InitWith(fl)

NextGuards ==
    \/ \E t \in RandomTypes : SetRandomType(t)
    \/ \E b \in BOOLEAN : SetCheckThreshold(b)
    \/ \E v \in Thresholds : SetLikelihoodThreshold(v)
    \/ \E v \in Rescalers : SetLikelihoodRescaler(v)
    \/ \E cube \in Cubes : \E entropy \in Entropy : CoreEvaluation(cube, entropy)

SpecGuards == InitGuards /\ [][NextGuards]_vars

\* SpecRandom: the caller sets the randomness policy, the seed tracer and
\* the ensemble size between core evaluations.
RandomLists == {<<"fab">>, <<"fa", "fab">>}

InitRandom == \E fl \in RandomLists : InitWith(fl)

NextRandom ==
    \/ \E t \in RandomTypes : SetRandomType(t)
    \/ \E seed_tracer \in Tracers : SetSeedTracer(seed_tracer)
    \/ \E ensemble_size \in 0..MaxEnsemble : SetEnsembleSize(ensemble_size)
    \/ \E cube \in Cubes : \E entropy \in Entropy : CoreEvaluation(cube, entropy)

SpecRandom == InitRandom /\ [][NextRandom]_vars

\* SpecResults: the results are read before and after sampling runs.
ResultLists == {<<"fa">>, <<"fab">>}

InitResults == \E fl \in ResultLists : InitWith(fl)

NextResults ==
    \/ \E evidence \in Evidences : \E evidence_err \in EvidenceErrs :
         \E samples_array \in SampleArrays :
            RunCompleted(evidence, evidence_err, samples_array)
    \/ ReadLogEvidence
    \/ ReadLogEvidenceErr
    \/ ReadSamplesScaled
    \/ ReadSamples

SpecResults == InitResults /\ [][NextResults]_vars

\* SpecEndToEnd: the caller chooses factory a's active parameters, assigns
\* the list of that factory and evaluates unit cubes under either likelihood.
EndToEndCubes == UNION {[1..n -> 0..Unit] : n \in 1..2}

NextEndToEnd ==
    \/ \E aps \in ActiveChoices("fa") : SetFactoryActiveParameters("fa", aps)
    \/ AssignFactoryList(<<"fa">>)
    \/ \E likelihood \in Likelihoods : SetLikelihood(likelihood)
    \/ \E cube \in EndToEndCubes : \E entropy \in Entropy :
           CoreEvaluation(cube, entropy)

SpecEndToEnd == InitRegistry /\ [][NextEndToEnd]_vars

\* SpecPriors: the sampler calls the prior operations on a pipeline
\* constructed with one of a few factory lists the constructor accepts.
PriorLists == {<<"fa">>, <<"fab">>, <<"fab", "fa">>, <<"fab", "fab">>}

InitPriors == \E fl \in PriorLists : InitWith(fl)

NextPriors ==
    \/ \E cube \in UnitCubes : PriorTransform(cube)
    \/ \E cube \in UnitCubes : \E empty \in [1..Len(cube) -> Garbage] :
           PriorPdf(cube, empty)

SpecPriors == InitPriors /\ [][NextPriors]_vars

(***************************************************************************)
(* Pipeline._mpi_likelihood, lines 375-425, called by every process of the *)
(* MPI group on its own pipeline object; the pipelines are configured      *)
(* alike.  Each process has its own randomness state and its own           *)
(* time-dependent seed.                                                    *)
(***************************************************************************)
Ranks == 0..(MpiSize - 1)

\* The cubes the processes propose: two in bounds and one out of bounds.
MpiCubes == {[i \in 1..Len(_active_parameters) |-> v] : v \in {1, 2, Unit + 1}}

\* Entry: cube_local_size and cube_pool are set up, lines 400-401 and 420-421.
MpiCall(p, cube) ==
    /\ procs[p].pc = "idle"
    /\ procs' = [procs EXCEPT ![p] =
                    [pc |-> "allgather", cube |-> cube, cube_pool |-> << >>,
                     loglike_pool |-> << >>, evals |-> << >>, ret |-> None,
                     error |-> None, rnd |-> InitialRnd]]
    /\ UNCHANGED <<factories, registryVars, configVars, rnd, last,
                   sampler_supports_mpi, scattered,
                   resultVars,
                   otherVars>>

\* comm.Allgather, lines 402 and 422: once every process has entered, each
\* holds the cubes of all in rank order.
Allgather ==
    /\ \A p \in Ranks : procs[p].pc = "allgather"
    /\ procs' = [p \in Ranks |->
                    [procs[p] EXCEPT
                        !.pc = "gathered",
                        !.cube_pool = Flatten([i \in 1..MpiSize |-> procs[i - 1].cube])]]
    /\ UNCHANGED <<factories, registryVars, configVars, rnd, last,
                   sampler_supports_mpi, scattered,
                   resultVars,
                   otherVars>>

\* A slice that is the first gathered cube whatever the index.
CubeLocal_First(cube_pool, cube_local_size, i) ==
    SubSeq(cube_pool, 1, cube_local_size)

\* cube_pool[i*cube_local_size : (i+1)*cube_local_size], line 407.
CubeLocal(cube_pool, cube_local_size, i) ==
    SubSeq(cube_pool, i * cube_local_size + 1, (i + 1) * cube_local_size)

\* The loop of lines 405-408 from index i: the core likelihood of every
\* gathered cube, in index order; a raise ends the call.
RECURSIVE PoolLoop(_, _, _, _, _)
PoolLoop(cube_pool, cube_local_size, entropies, i, st) ==
    IF st.error # None \/ i >= MpiSize
    THEN st
    ELSE LET cube_local == CubeLocal(cube_pool, cube_local_size, i)
             res == CoreLikelihood(cube_local, st.rnd, entropies[i + 1])
         IN  PoolLoop(cube_pool, cube_local_size, entropies, i + 1,
                 [loglike_pool |-> IF res.outcome = "return"
                                   THEN Append(st.loglike_pool, res.value)
                                   ELSE st.loglike_pool,
                  evals |-> Append(st.evals,
                                [cube |-> cube_local, outcome |-> res.outcome,
                                 value |-> res.value]),
                  rnd |-> res.rnd,
                  error |-> res.error])

\* Protocol A, lines 404-408.
EvaluatePool(p, entropies) ==
    /\ sampler_supports_mpi
    /\ procs[p].pc = "gathered"
    /\ LET st == PoolLoop(procs[p].cube_pool, Len(procs[p].cube), entropies, 0,
                     [loglike_pool |-> << >>, evals |-> << >>,
                      rnd |-> procs[p].rnd, error |-> None])
       IN  procs' = [procs EXCEPT ![p] =
                        [@ EXCEPT !.pc = IF st.error = None THEN "scatter"
                                         ELSE "raised",
                                  !.loglike_pool = st.loglike_pool,
                                  !.evals = st.evals,
                                  !.rnd = st.rnd,
                                  !.error = st.error]]
    /\ UNCHANGED <<factories, registryVars, configVars, rnd, last,
                   sampler_supports_mpi, scattered,
                   resultVars,
                   otherVars>>

\* A scatter that hands every process the root's first entry.
ScatterPart_First(sendbuf, rank) == sendbuf[1]

\* The part of the root's buffer comm.Scatter delivers to a rank, line 412.
ScatterPart(sendbuf, rank) == sendbuf[rank + 1]

\* comm.Scatter at the root (rank 0), lines 411-414.
ScatterRoot ==
    /\ sampler_supports_mpi
    /\ procs[0].pc = "scatter"
    /\ scattered' = procs[0].loglike_pool
    /\ procs' = [procs EXCEPT ![0] =
                    [@ EXCEPT !.pc = "returned",
                              !.ret = ScatterPart(procs[0].loglike_pool, 0)]]
    /\ UNCHANGED <<factories, registryVars, configVars, rnd, last,
                   sampler_supports_mpi,
                   resultVars,
                   otherVars>>

\* comm.Scatter at another rank: it waits for the root's buffer.
ScatterReceive(p) ==
    /\ sampler_supports_mpi
    /\ p # 0
    /\ procs[p].pc = "scatter"
    /\ scattered # None
    /\ procs' = [procs EXCEPT ![p] =
                    [@ EXCEPT !.pc = "returned",
                              !.ret = ScatterPart(scattered, p)]]
    /\ UNCHANGED <<factories, registryVars, configVars, rnd, last,
                   sampler_supports_mpi, scattered,
                   resultVars,
                   otherVars>>

\* A check that passes as soon as one entry agrees.
PoolConsistent_Any(cube_pool, cube_local_size) ==
    \E i \in DOMAIN cube_pool :
        cube_pool[i] = cube_pool[((i - 1) % cube_local_size) + 1]

\* (cube_pool == np.tile(cube_pool[:cube_local_size], mpisize)).all(),
\* line 424.
PoolConsistent(cube_pool, cube_local_size) ==
    \A i \in DOMAIN cube_pool :
        cube_pool[i] = cube_pool[((i - 1) % cube_local_size) + 1]

\* Protocol B, lines 423-425.
CheckAndEvaluate(p, entropy) ==
    /\ ~sampler_supports_mpi
    /\ procs[p].pc = "gathered"
    /\ IF ~PoolConsistent(procs[p].cube_pool, Len(procs[p].cube))
       THEN procs' = [procs EXCEPT ![p] =
                         [@ EXCEPT !.pc = "raised", !.error = "AssertionError"]]
       ELSE LET res == CoreLikelihood(procs[p].cube, procs[p].rnd, entropy)
            IN  procs' = [procs EXCEPT ![p] =
                    [@ EXCEPT !.pc = IF res.outcome = "return" THEN "returned"
                                     ELSE "raised",
                              !.evals = <<[cube |-> procs[p].cube,
                                           outcome |-> res.outcome,
                                           value |-> res.value]>>,
                              !.ret = res.value,
                              !.rnd = res.rnd,
                              !.error = res.error]]
    /\ UNCHANGED <<factories, registryVars, configVars, rnd, last,
                   sampler_supports_mpi, scattered,
                   resultVars,
                   otherVars>>

\* The group's pipelines: one factory with one active parameter; the policy,
\* the guard and the protocol are the run's configuration.
InitMPI ==
    /\ InitFactoryList(<<"fab">>)
    /\ _ensemble_size = 1
    /\ likelihood_rescaler = 1
    /\ random_type \in {"free", "controllable", "fixed"}
    /\ check_threshold \in BOOLEAN
    /\ likelihood_threshold = 0
    /\ _likelihood = "ensemble"
    /\ rnd = InitialRnd
    /\ last = Idle
    /\ sampler_supports_mpi \in BOOLEAN
    /\ procs = IdleProcs
    /\ scattered = None
    /\ NoResults
    /\ OthersIdle

NextMPI ==
    \/ \E p \in Ranks : \E cube \in MpiCubes : MpiCall(p, cube)
    \/ Allgather
    \/ \E p \in Ranks : \E entropies \in [1..MpiSize -> Entropy] :
           EvaluatePool(p, entropies)
    \/ ScatterRoot
    \/ \E p \in Ranks : ScatterReceive(p)
    \/ \E p \in Ranks : \E entropy \in Entropy : CheckAndEvaluate(p, entropy)

SpecMPI == InitMPI /\ [][NextMPI]_vars

(***************************************************************************)
(* The two protocols (SpecMPI).                                            *)
(***************************************************************************)
\* The values a direct call _core_likelihood(cube) on a freshly configured
\* pipeline can return.
DirectValues(cube) ==
    {CoreLikelihood(cube, InitialRnd, entropy).value : entropy \in
        {e \in Entropy : CoreLikelihood(cube, InitialRnd, e).outcome = "return"}}

CubesDiffer ==
    /\ \A p \in Ranks : procs[p].pc # "idle"
    /\ \E p \in Ranks : procs[p].cube # procs[0].cube

\* C2: under protocol B, when some process's cube differs from rank 0's, no
\* process returns a score or runs the core likelihood: a process that gets
\* past the all-gather ends in the failed assertion.
C2_ProtocolBMismatchRaises ==
    (~sampler_supports_mpi /\ CubesDiffer)
        => \A p \in Ranks :
              /\ procs[p].pc \in {"allgather", "gathered", "raised"}
              /\ procs[p].evals = << >>
              /\ procs[p].ret = None
              /\ procs[p].pc = "raised" => procs[p].error = "AssertionError"

\* Every process of a group with differing cubes has raised.
C2_Witness ==
    /\ ~sampler_supports_mpi
    /\ CubesDiffer
    /\ \A p \in Ranks : procs[p].pc = "raised" /\ procs[p].error = "AssertionError"

\* Every process has left the call, all with the same in-bounds or
\* out-of-bounds cube.
SameCubeDone ==
    /\ \A p \in Ranks : procs[p].pc \in {"returned", "raised"}
    /\ \A p \in Ranks : procs[p].cube = procs[0].cube

\* C3: under protocol B, when all processes call with the same cube, every
\* process returns a scalar and the scalars are equal, under every randomness
\* policy.  Stated for the policy fixed with the threshold guard off, where
\* every process derives the same seeds from the same tracer and no
\* evaluation raises.
C3_ProtocolBConsistentScalars ==
    (~sampler_supports_mpi /\ SameCubeDone /\ random_type = "fixed"
     /\ ~check_threshold)
        => \A p, q \in Ranks :
              /\ procs[p].pc = "returned"
              /\ procs[p].ret = procs[q].ret

(***************************************************************************)
(* The core likelihood's guards (SpecGuards).                              *)
(***************************************************************************)
CoreEvaluated == last.op = "_core_likelihood"

\* The cube has a coordinate below 0 or above 1.
OutsideUnitCube(cube) == \E i \in DOMAIN cube : cube[i] < 0 \/ cube[i] > Unit

\* C4: a core evaluation of a cube with a coordinate below 0 or above 1
\* returns the sentinel and does not raise, whatever the factory list, the
\* random_type (an unsupported one included), the threshold settings and the
\* randomness state are.
C4_OutOfBoundsReturnsSentinel ==
    (CoreEvaluated /\ OutsideUnitCube(last.arg))
        => (last.res.outcome = "return" /\ last.res.value = Sentinel
            /\ last.res.error = None)

\* A cube with a coordinate below 0 evaluated while random_type is
\* unsupported and the threshold guard is on.
C4_Witness ==
    /\ CoreEvaluated
    /\ \E i \in DOMAIN last.arg : last.arg[i] < 0
    /\ random_type = "other"
    /\ check_threshold
    /\ last.res.value = Sentinel

\* C5: with check_threshold on, a score above likelihood_threshold makes the
\* core evaluation raise; no value, clamped or not, is returned.
C5_ThresholdExceededRaises ==
    (CoreEvaluated /\ last.res.scored /\ check_threshold
     /\ last.res.score > likelihood_threshold)
        => (last.res.outcome = "raise" /\ last.res.error = "ValueError"
            /\ last.res.value = None)

\* The likelihood scored 1 against a threshold of 0 with the guard on.
C5_Witness ==
    /\ CoreEvaluated
    /\ check_threshold
    /\ likelihood_threshold = 0
    /\ last.res.scored
    /\ last.res.score = 1
    /\ last.res.outcome = "raise"

\* C6: an evaluation that reaches the likelihood returns score * rescaler
\* unless the guard is on and the score, before rescaling, is above the
\* threshold; with the guard off every score is returned.
C6_ReturnsRescaledScore ==
    (CoreEvaluated /\ last.res.scored)
        => /\ last.res.outcome = "raise"
                <=> (check_threshold /\ last.res.score > likelihood_threshold)
           /\ last.res.outcome = "return"
                => last.res.value = last.res.score * likelihood_rescaler

\* A score that passes the guard although its rescaled value is above the
\* threshold.
C6_Witness ==
    /\ CoreEvaluated
    /\ check_threshold
    /\ last.res.scored
    /\ last.res.score <= likelihood_threshold
    /\ last.res.score * likelihood_rescaler > likelihood_threshold
    /\ last.res.outcome = "return"
    /\ last.res.value = last.res.score * likelihood_rescaler

(***************************************************************************)
(* The parameter registry (SpecRegistry).                                  *)
(***************************************************************************)
Assigned == last.op = "factory_list"

\* factory_name + '_' + parameter_name for every active parameter of every
\* factory of the list, factories in list order, parameters in declared order.
ConcatenatedNames(facs, fl) ==
    Flatten([j \in DOMAIN fl |->
                [k \in DOMAIN facs[fl[j]].active_parameters |->
                    facs[fl[j]].name \o "_" \o facs[fl[j]].active_parameters[k]]])

\* C7: after a factory list is assigned, active_parameters is the
\* concatenation of the factories' qualified active parameters in list order,
\* and nothing but an assignment of factory_list changes active_parameters.
C7_RegistryOrder ==
    /\ [](Assigned /\ last.res.outcome = "return"
            => /\ _factory_list = last.arg
               /\ _active_parameters = ConcatenatedNames(factories, last.arg))
    /\ [][_active_parameters' # _active_parameters
            => last'.op = "factory_list"]_vars

\* Two factories with three active parameters between them were assigned.
C7_Witness ==
    /\ Assigned
    /\ last.res.outcome = "return"
    /\ last.arg = <<"fab", "fa">>
    /\ _active_parameters = <<"a_b_c", "a_x", "a_b_c">>

\* Some two (factory, active parameter) positions of the list give the same
\* qualified name.
DuplicateNames(facs, fl) ==
    LET names == ConcatenatedNames(facs, fl)
    IN  \E i, j \in DOMAIN names : i < j /\ names[i] = names[j]

\* C9: assigning a factory list that yields a qualified name twice fails.
C9_DuplicateNamesRejected ==
    (Assigned /\ DuplicateNames(factories, last.arg)) => last.res.outcome = "raise"

\* Some factory of the list has an active parameter with no range or no prior.
MissingEntry(facs, fl) ==
    \E j \in DOMAIN fl : \E k \in DOMAIN facs[fl[j]].active_parameters :
        LET ap_name == facs[fl[j]].active_parameters[k]
        IN  \/ ~DictHas(facs[fl[j]].parameter_ranges, ap_name)
            \/ ~DictHas(facs[fl[j]].priors, ap_name)

\* C10: assigning a factory list in which a factory has an active parameter
\* without a range or without a prior raises in the assignment, and the
\* pipeline never holds such a list for a likelihood evaluation to use.
C10_MissingEntryRejected ==
    /\ (Assigned /\ MissingEntry(factories, last.arg))
          => (last.res.outcome = "raise" /\ _factory_list # last.arg)
    /\ ~MissingEntry(factories, _factory_list)

\* A list whose second factory lacks a prior was assigned: the assignment
\* raised after the first factory's parameters were registered.
C10_Witness ==
    /\ Assigned
    /\ last.arg = <<"fab", "fnp">>
    /\ last.res.outcome = "raise"
    /\ last.res.error = "KeyError"

(***************************************************************************)
(* Slicing the cube (Spec).                                                *)
(***************************************************************************)
\* The number of active parameters of the first j factories of the list, as
\* the factories stand.
RECURSIVE ActiveCount(_, _, _)
ActiveCount(facs, fl, j) ==
    IF j = 0 THEN 0
    ELSE ActiveCount(facs, fl, j - 1) + Len(facs[fl[j]].active_parameters)

\* C8: in a core evaluation of an in-bounds cube whose length is the
\* factories' total number of active parameters, the j-th generate call is
\* for the j-th factory of the list, its slice is the next
\* len(active_parameters) coordinates of the cube, its variable dict maps the
\* k-th active parameter to the k-th coordinate of the slice, and the slices
\* concatenated are the cube.
C8_SlicesPartitionCube ==
    (/\ CoreEvaluated
     /\ ~OutsideUnitCube(last.arg)
     /\ Len(last.arg) = ActiveCount(factories, _factory_list, Len(_factory_list)))
        => LET cube == last.arg
               fields == last.res.field_list
           IN  /\ Len(fields) = Len(_factory_list)
               /\ \A j \in DOMAIN fields :
                    LET aps == factories[_factory_list[j]].active_parameters
                        off == ActiveCount(factories, _factory_list, j - 1)
                    IN  /\ fields[j].factory = _factory_list[j]
                        /\ fields[j].factory_cube = SubSeq(cube, off + 1, off + Len(aps))
                        /\ DOMAIN fields[j].variables = Range(aps)
                        /\ \A k \in DOMAIN aps :
                             fields[j].variables[aps[k]] = fields[j].factory_cube[k]
               /\ Flatten([j \in DOMAIN fields |-> fields[j].factory_cube]) = cube

\* A cube of three coordinates was split between two factories.
C8_Witness ==
    /\ CoreEvaluated
    /\ last.arg = <<1, 2, 0>>
    /\ Len(last.res.field_list) = 2
    /\ last.res.field_list[1].factory_cube = <<1>>
    /\ last.res.field_list[2].factory_cube = <<2, 0>>
    /\ last.res.field_list[2].variables["b_c"] = 0
    /\ last.res.outcome = "return"

(***************************************************************************)
(* Re-assignment of the factory list (SpecRegistry).                       *)
(***************************************************************************)
\* The dict d holds exactly the entries the list fl gives: its keys are the
\* list's qualified names, each once, and each value is the entry that some
\* factory of the list holds in field for the parameter of that name.
DerivedFrom(d, facs, fl, field) ==
    /\ Range(DictKeys(d)) = Range(ConcatenatedNames(facs, fl))
    /\ Cardinality(Range(DictKeys(d))) = Len(d)
    /\ \A i \in DOMAIN d :
         \E j \in DOMAIN fl : \E k \in DOMAIN facs[fl[j]].active_parameters :
            LET ap_name == facs[fl[j]].active_parameters[k]
                entries == IF field = "parameter_ranges"
                           THEN facs[fl[j]].parameter_ranges
                           ELSE facs[fl[j]].priors
            IN  /\ d[i][1] = facs[fl[j]].name \o "_" \o ap_name
                /\ \E e \in DOMAIN entries : entries[e] = <<ap_name, d[i][2]>>

\* C11: after a successful assignment of factory_list, active_parameters,
\* active_ranges and priors hold exactly the entries derived from the
\* assigned list; nothing of the list held before survives unless the new
\* list gives it again.
C11_ReassignmentReplacesRegistry ==
    (Assigned /\ last.res.outcome = "return")
        => /\ Range(_active_parameters)
                = Range(ConcatenatedNames(factories, last.arg))
           /\ DerivedFrom(_active_ranges, factories, last.arg, "parameter_ranges")
           /\ DerivedFrom(_priors, factories, last.arg, "priors")

\* The pipeline constructed with factory a (names a_x and a_b_c) was assigned
\* the list of factory a_b alone: a_x is gone and a_b_c has the new range.
C11_Witness ==
    /\ Assigned
    /\ last.res.outcome = "return"
    /\ last.arg = <<"fab">>
    /\ factories["fab"].active_parameters = <<"c">>
    /\ _active_ranges = << <<"a_b_c", <<2, 8>> >> >>
    /\ _priors = << <<"a_b_c", "FlatPrior">> >>

(***************************************************************************)
(* The prior operations (SpecPriors).                                      *)
(***************************************************************************)
\* C12: prior_transform of a cube as long as active_parameters returns a
\* sequence of that length whose position i is the prior registered for the
\* i-th entry of active_parameters applied to cube[i].
C12_PriorTransformByPosition ==
    (last.op = "prior_transform" /\ Len(last.arg) = Len(_active_parameters))
        => /\ last.res.outcome = "return"
           /\ Len(last.res.value) = Len(last.arg)
           /\ \A i \in DOMAIN last.arg :
                last.res.value[i] =
                    PriorCall(DictGet(_priors, _active_parameters[i]), last.arg[i])

\* C13: prior_pdf of a cube returns a sequence whose position i is the
\* density of the i-th parameter's prior at cube[i].
C13_PriorPdfOfInput ==
    (last.op = "prior_pdf" /\ Len(last.arg) = Len(_active_parameters))
        => /\ last.res.outcome = "return"
           /\ Len(last.res.value) = Len(last.arg)
           /\ \A i \in DOMAIN last.arg :
                last.res.value[i] =
                    PriorDensity(DictGet(_priors, _active_parameters[i]), last.arg[i])

(***************************************************************************)
(* The randomness policy in the core likelihood (SpecRandom).              *)
(***************************************************************************)
SupportedTypes == {"free", "controllable", "fixed"}

\* C14: no core evaluation takes place on a pipeline whose random_type is
\* outside free, controllable and fixed.
C14_UnsupportedPolicyNeverEvaluated ==
    CoreEvaluated => random_type \in SupportedTypes

\* C15: in an in-bounds core evaluation under controllable or fixed every
\* generate request carries the seed set the controller derived in that
\* evaluation, of length ensemble_size; under free it carries no seeds.
C15_GenerateCarriesDerivedSeeds ==
    (CoreEvaluated /\ ~OutsideUnitCube(last.arg))
        => \A j \in DOMAIN last.res.field_list :
              LET seeds == last.res.field_list[j].ensemble_seeds
              IN  /\ random_type = "free" => seeds = NoSeeds
                  /\ random_type \in {"controllable", "fixed"}
                        => /\ seeds # NoSeeds
                           /\ seeds = rnd.ensemble_seeds
                           /\ Len(seeds) = _ensemble_size

\* C16: under fixed, a core evaluation of the cube the previous core
\* evaluation was given, with the seed tracer as it was, derives the same
\* seeds and ends as the previous one did, with the same scalar.
C16_FixedPolicyDeterministic ==
    [][(/\ CoreEvaluated
        /\ last'.op = "_core_likelihood"
        /\ last'.arg = last.arg
        /\ ~OutsideUnitCube(last.arg)
        /\ random_type = "fixed"
        /\ rnd'._seed_tracer = rnd._seed_tracer)
          => /\ rnd'.ensemble_seeds = rnd.ensemble_seeds
             /\ last'.res.outcome = last.res.outcome
             /\ last'.res.value = last.res.value]_vars

\* The pipeline holds a seed set: in _ensemble_seeds, or the one an earlier
\* evaluation derived.
HoldsSeedSet ==
    rnd._ensemble_seeds # NoSeeds \/ rnd.ensemble_seeds # NoSeeds

\* C17: an in-bounds core evaluation under free hands no seeds to generate,
\* and on a pipeline that holds a seed set it fails the assertion before any
\* field is generated.
C17_FreePolicyStaleSeedsFail ==
    (/\ CoreEvaluated
     /\ ~OutsideUnitCube(last.arg)
     /\ Len(last.arg) = Len(_active_parameters)
     /\ random_type = "free")
        => /\ \A j \in DOMAIN last.res.field_list :
                last.res.field_list[j].ensemble_seeds = NoSeeds
           /\ HoldsSeedSet => /\ last.res.error = "AssertionError"
                              /\ last.res.field_list = << >>

(***************************************************************************)
(* The result accessors (SpecResults).                                     *)
(***************************************************************************)
AccessorOps == {"log_evidence", "log_evidence_err", "samples_scaled", "samples"}

\* The attribute an accessor reads.
StoredFor(op) ==
    IF op = "log_evidence" THEN _evidence
    ELSE IF op = "log_evidence_err" THEN _evidence_err
    ELSE _samples_array

\* The table has one column per active parameter, under its name and in
\* order, with one entry per stored row.
TableShaped(table) ==
    /\ Len(table) = Len(_active_parameters)
    /\ \A i \in DOMAIN table :
         /\ table[i][1] = _active_parameters[i]
         /\ Len(table[i][2]) = Len(_samples_array)

C19_SamplesMappedThroughPriors ==
    (last.op = "samples" /\ _samples_array # Unset)
        => /\ last.res.outcome = "return"
           /\ \A i \in DOMAIN _active_parameters :
                \A r \in DOMAIN _samples_array :
                   last.res.value[i][2][r] =
                       PriorCall(DictGet(_priors, _active_parameters[i]),
                                 _samples_array[r][i])

(***************************************************************************)
(* The end-to-end scenario (SpecEndToEnd).                                 *)
(***************************************************************************)
\* A single factory whose only active parameter x has range [0, 10] and a
\* flat prior, ensemble size 1, the likelihood -((x-5)^2), and a core
\* evaluation of a cube of one coordinate.
EndToEndScenario ==
    /\ _factory_list = <<"fa">>
    /\ factories["fa"].active_parameters = <<"x">>
    /\ _active_parameters = <<"a_x">>
    /\ _active_ranges = << <<"a_x", <<0, 10>> >> >>
    /\ _priors = << <<"a_x", "FlatPrior">> >>
    /\ _ensemble_size = 1
    /\ likelihood_rescaler = 1
    /\ _likelihood = "quadratic"
    /\ CoreEvaluated
    /\ Len(last.arg) = 1

C21_NoProcessStrandedInScatter ==
    sampler_supports_mpi
        => \A p, q \in Ranks :
              /\ ~(procs[p].pc = "raised" /\ procs[q].pc = "returned")
              /\ ~(procs[0].pc = "raised" /\ procs[q].pc = "scatter")

\* The evaluations a process has made are of the gathered cubes in index
\* order, from index 0.
EvaluatedInIndexOrder(p) ==
    /\ Len(procs[p].evals) <= MpiSize
    /\ \A i \in DOMAIN procs[p].evals :
          procs[p].evals[i].cube = procs[i - 1].cube

C23_RejectionHasNoEffect ==
    /\ [](CoreEvaluated /\ OutsideUnitCube(last.arg)
            => /\ last.res.field_list = << >>
               /\ ~last.res.simulated
               /\ ~last.res.scored)
    /\ [][(last'.op = "_core_likelihood" /\ OutsideUnitCube(last'.arg))
            => rnd' = rnd]_vars

\* Under controllable a cube was rejected after an evaluation had drawn
\* seeds, and the stream stands where that evaluation left it.
C23_Witness ==
    /\ CoreEvaluated
    /\ OutsideUnitCube(last.arg)
    /\ random_type = "controllable"
    /\ _ensemble_size = 1
    /\ rnd.ensemble_seeds # NoSeeds
    /\ rnd.np_pos = 1
    /\ last.res.value = Sentinel

\* C24: a core evaluation of an in-bounds cube while random_type is none of
\* free, controllable and fixed raises ValueError with no field generated,
\* nothing simulated and nothing scored.
C24_UnsupportedPolicyRaisesFirst ==
    (CoreEvaluated /\ ~OutsideUnitCube(last.arg)
     /\ random_type \notin SupportedTypes)
        => /\ last.res.outcome = "raise"
           /\ last.res.error = "ValueError"
           /\ last.res.value = None
           /\ last.res.field_list = << >>
           /\ ~last.res.simulated
           /\ ~last.res.scored

\* An in-bounds cube of the registry's length was evaluated under an
\* unsupported policy.
C24_Witness ==
    /\ CoreEvaluated
    /\ last.arg # << >>
    /\ Len(last.arg) = Len(_active_parameters)
    /\ ~OutsideUnitCube(last.arg)
    /\ random_type = "other"
    /\ last.res.error = "ValueError"

(***************************************************************************)
(* The head index assertion (Spec).                                        *)
(***************************************************************************)
\* C28: a core evaluation runs the simulator and the likelihood only if the
\* factories' active-parameter counts, as they stand, sum to the length of
\* the registry; an in-bounds evaluation where they differ raises and
\* returns no value.
C28_CountsMatchRegistryBeforeSimulation ==
    CoreEvaluated
        => LET total == ActiveCount(factories, _factory_list, Len(_factory_list))
           IN  /\ (last.res.simulated \/ last.res.scored)
                     => total = Len(_active_parameters)
               /\ (~OutsideUnitCube(last.arg) /\ total # Len(_active_parameters))
                     => /\ last.res.outcome = "raise"
                        /\ last.res.value = None
                        /\ ~last.res.simulated
                        /\ ~last.res.scored

\* A factory lost an active parameter after registration; the evaluation
\* generated its fields and then failed the assertion.
C28_Witness ==
    /\ CoreEvaluated
    /\ ~OutsideUnitCube(last.arg)
    /\ ActiveCount(factories, _factory_list, Len(_factory_list))
          < Len(_active_parameters)
    /\ Len(last.arg) = Len(_active_parameters)
    /\ last.res.field_list # << >>
    /\ last.res.error = "AssertionError"

(***************************************************************************)
(* Repeated reads of the samples (SpecResults).                            *)
(***************************************************************************)
\* C25: a read of samples or samples_scaled leaves the stored sample array,
\* the evidence and its error as they were, and the table a read of samples
\* returned is the table a further read of samples returns.
C25_ReadsLeaveStoredResults ==
    /\ [][last'.op \in {"samples", "samples_scaled"}
            => UNCHANGED <<_samples_array, _evidence, _evidence_err>>]_vars
    /\ []((last.op = "samples" /\ _samples_array # Unset)
            => last.res = Samples)

\* After a run the samples were read and the table differs from the stored
\* unit-scale values.
C25_Witness ==
    /\ last.op = "samples"
    /\ _samples_array # Unset
    /\ last.res.outcome = "return"
    /\ last.res.value # SamplesScaled.value
    /\ _evidence # Unset

(***************************************************************************)
(* Failed assignments of the factory list (SpecRegistry).                  *)
(***************************************************************************)
\* C27: an assignment of factory_list that raises leaves factory_list,
\* active_parameters, active_ranges and priors as they were before it.
C27_FailedAssignmentKeepsRegistry ==
    [][(last'.op = "factory_list" /\ last'.res.outcome = "raise")
          => UNCHANGED <<_factory_list, _active_parameters, _active_ranges,
                         _priors>>]_vars

(***************************************************************************)
(* The sampler's options (SpecControllers): the caller assigns dicts to    *)
(* sampling_controllers again and again.                                   *)
(***************************************************************************)
InitControllers == InitWith(<<"fab">>)

NextControllers == \E pp_dict \in ControllerDicts : SetSamplingControllers(pp_dict)

SpecControllers == InitControllers /\ [][NextControllers]_vars

\* C29: an assignment of a dict to sampling_controllers leaves the held
\* options with the keys held before and the keys assigned; an assigned key
\* has the assigned value and every other key the value it had; no step
\* removes a key.
C29_AssignmentMergesOptions ==
    /\ [][last'.op = "sampling_controllers"
            => /\ Range(DictKeys(_sampling_controllers'))
                    = Range(DictKeys(_sampling_controllers))
                        \cup Range(DictKeys(last'.arg))
               /\ \A k \in Range(DictKeys(last'.arg)) :
                     DictGet(_sampling_controllers', k) = DictGet(last'.arg, k)
               /\ \A k \in Range(DictKeys(_sampling_controllers))
                             \ Range(DictKeys(last'.arg)) :
                     DictGet(_sampling_controllers', k)
                         = DictGet(_sampling_controllers, k)]_vars
    /\ [][Range(DictKeys(_sampling_controllers))
              \subseteq Range(DictKeys(_sampling_controllers'))]_vars

\* resume was assigned while n_live_points and resume were held: the first
\* keeps its value and the second takes the new one.
C29_Witness ==
    /\ last.op = "sampling_controllers"
    /\ last.arg = << <<"resume", "b">> >>
    /\ _sampling_controllers = << <<"n_live_points", "a">>, <<"resume", "b">> >>

(***************************************************************************)
(* Fields (SpecFields): the caller constructs fields and assigns their     *)
(* parameters.                                                             *)
(***************************************************************************)
InitFields == InitWith(<<"fab">>)

NextFields ==
    \/ \E f \in FieldIds : \E checklist \in FieldChecklists :
         \E use_default \in BOOLEAN : \E given \in FieldParameterDicts :
           \E ensemble_size \in 0..1 : \E random_seed \in RandomSeeds :
             ConstructField(f, checklist, use_default, given, ensemble_size,
                            random_seed)
    \/ \E f \in FieldIds : \E parameters \in FieldParameterDicts :
           AssignFieldParameters(f, parameters)

SpecFields == InitFields /\ [][NextFields]_vars

\* The parameters of field g: the contents of the dict it holds.
ParametersOf(ds, fs, g) == ds[fs[g]._parameters]

\* An assignment of parameters with a key outside the field's checklist
\* raises and changes nothing; an accepted one gives the assigned keys the
\* assigned values and keeps every other held key with its value.
AssignmentCheckedAndMerged ==
    [][last'.op = "parameters"
         => LET f == last'.arg.field
                given == last'.arg.parameters
                before == ParametersOf(dicts, field_objs, f)
                after == ParametersOf(dicts', field_objs', f)
            IN  IF \E k \in Range(DictKeys(given)) :
                      k \notin field_objs[f].field_checklist
                THEN /\ last'.res.outcome = "raise"
                     /\ UNCHANGED <<dicts, field_objs>>
                ELSE /\ last'.res.outcome = "return"
                     /\ Range(DictKeys(after))
                          = Range(DictKeys(before)) \cup Range(DictKeys(given))
                     /\ \A k \in Range(DictKeys(given)) :
                           DictGet(after, k) = DictGet(given, k)
                     /\ \A k \in Range(DictKeys(before)) \ Range(DictKeys(given)) :
                           DictGet(after, k) = DictGet(before, k)]_vars

\* C30: an assignment of parameters with a key outside field_checklist fails
\* and leaves the field's parameters unchanged, an accepted assignment
\* merges the given keys into the held parameters, and the construction of
\* a field leaves the parameters of every field constructed before as they
\* were.
C30_FieldParametersChecked ==
    /\ AssignmentCheckedAndMerged
    /\ [][last'.op = "GeneralField"
            => \A g \in FieldIds :
                  field_objs[g].constructed
                      => ParametersOf(dicts', field_objs', g)
                           = ParametersOf(dicts, field_objs, g)]_vars

(***************************************************************************)
(* Masking (SpecMasks): the caller fills an observables dictionary and a   *)
(* Masks dictionary and applies the masks.                                 *)
(***************************************************************************)
InitMasks == InitWith(<<"fab">>)

NextMasks ==
    \/ \E type \in ObservableTypes : NewObservableDict(type)
    \/ \E name \in ObservableKeys : \E variant \in {0, 1} : \E plain \in BOOLEAN :
           AppendObservable(name, variant, plain)
    \/ \E name \in ObservableKeys : \E mask_row \in MaskRows(name) :
         \E plain \in BOOLEAN :
           AppendMask(name, mask_row, plain)
    \/ ApplyMasks

SpecMasks == InitMasks /\ [][NextMasks]_vars

\* The number of pixels a mask row keeps.
RECURSIVE CountKept(_)
CountKept(mask_row) ==
    IF mask_row = << >> THEN 0
    ELSE (IF Head(mask_row) = 1 THEN 1 ELSE 0) + CountKept(Tail(mask_row))

\* C26: masks applied to an observables dictionary return a dictionary of
\* the same class and leave the input as it was; an entry without a mask of
\* its key is in the result under its key with its observable, and an entry
\* with a mask is in the result, masked, under the key whose third field is
\* the number of pixels the mask keeps.
C26_MaskedDictionary ==
    (last.op = "Masks.__call__" /\ last.res.outcome = "return")
        => /\ last.res.type = last.arg.type
           /\ obs_archive = last.arg.archive
           /\ \A i \in DOMAIN last.arg.archive :
                 LET name == last.arg.archive[i][1]
                     observable == last.arg.archive[i][2]
                 IN  IF ~DictHas(mask_archive, name)
                     THEN /\ DictHas(last.res.archive, name)
                          /\ DictGet(last.res.archive, name).data = observable.data
                          /\ DictGet(last.res.archive, name).alias = i
                     ELSE LET mask_row == DictGet(mask_archive, name).data[1]
                              new_name == <<name[1], name[2],
                                            StrOf(CountKept(mask_row)), name[4]>>
                          IN  /\ DictHas(last.res.archive, new_name)
                              /\ Columns(DictGet(last.res.archive, new_name).data)
                                    = CountKept(mask_row)
                              /\ DictGet(last.res.archive, new_name).alias = 0

====
